---- MODULE Spec2Model ----
(***************************************************************************)
(* Model of crossbow.py: the command-line front end of Crossbow.            *)
(* One run of main() is a state machine; pc is the position of the run in   *)
(* main() / select_excel_file().  Strings of the program (file names, sheet *)
(* names, input lines) are sequences of one-character strings, so that      *)
(* str.lower(), str.endswith() and int() are computed, not assumed.         *)
(***************************************************************************)
EXTENDS Integers, Sequences, FiniteSets, TLC

VARIABLES
    pc,          \* position of the run: StartUp, ListDir, FilePrompt, SheetSelection,
                 \* SheetPrompt, Dispatch, Render, Done, Fatal
    args_file,   \* args.file
    args_sheet,  \* args.sheet
    listing,     \* what os.listdir returned in this run (empty until it returned)
    xlsx_files,  \* local of select_excel_file
    file_path,   \* local of main
    sheet_name,  \* local of main
    sheets,      \* local of main
    workbook,    \* the sheet names the file at file_path has, as the engine knows them
                 \* (set when get_sheet_names is called, whether or not it succeeds)
    fileInputs,  \* the lines input() returned at the file prompt, in order
    sheetInputs, \* the lines input() returned at the sheet prompt, in order
    prompts,     \* the input() prompts issued, in order ("file" / "sheet")
    stdout,      \* the numbered menu lines print() wrote
    log,         \* the records logger wrote
    calls,       \* the calls made to os.listdir and to the crossbow engine, in order
    exitCode     \* exit status of the process: <<>> while it runs, <<status>> once it ended

vars == <<pc, args_file, args_sheet, listing, xlsx_files, file_path, sheet_name, sheets,
          workbook, fileInputs, sheetInputs, prompts, stdout, log, calls, exitCode>>

----------------------------------------------------------------------------
(* Values *)

\* Python's None; no string of the program is equal to it (every character of
\* a string is a one-character string).
None == <<"None">>

\* `not x` for x a str or None
Falsy(x) == x = None \/ x = <<>>

\* `not x` for x a list
IsEmptyList(x) == x = <<>>

UpperCase == <<"A", "B", "C", "D", "E", "F", "G", "H", "I", "J", "K", "L", "M",
               "N", "O", "P", "Q", "R", "S", "T", "U", "V", "W", "X", "Y", "Z">>
LowerCase == <<"a", "b", "c", "d", "e", "f", "g", "h", "i", "j", "k", "l", "m",
               "n", "o", "p", "q", "r", "s", "t", "u", "v", "w", "x", "y", "z">>

\* the lowercase letter of every uppercase letter
LowerOf ==
    [u \in {UpperCase[i] : i \in DOMAIN UpperCase} |->
        LowerCase[CHOOSE i \in DOMAIN UpperCase : UpperCase[i] = u]]

\* the character c of a string, lowercased
LowerChar(c) == IF c \in DOMAIN LowerOf THEN LowerOf[c] ELSE c

\* str.lower()
Lower(s) == [i \in DOMAIN s |-> LowerChar(s[i])]

\* str.endswith(suffix)
EndsWith(s, suffix) ==
    /\ Len(suffix) <= Len(s)
    /\ SubSeq(s, Len(s) - Len(suffix) + 1, Len(s)) = suffix

\* str.endswith(tuple of suffixes)
EndsWithAny(s, suffixes) == \E k \in DOMAIN suffixes : EndsWith(s, suffixes[k])

SUPPORTED_EXCEL_EXTENSIONS ==
    << <<".", "x", "l", "s", "x">>, <<".", "x", "l", "s">>, <<".", "o", "d", "s">> >>

\* a mutation of HasExcelExtension: the name is not lowercased
HasExcelExtensionCaseSensitive(f) == EndsWithAny(f, SUPPORTED_EXCEL_EXTENSIONS)

\* f.lower().endswith(SUPPORTED_EXCEL_EXTENSIONS)
HasExcelExtension(f) == EndsWithAny(Lower(f), SUPPORTED_EXCEL_EXTENSIONS)

\* a mutation of ListExcelFiles: every entry of the directory is listed
ListAllFiles(dir) == dir

\* [f for f in os.listdir(os.getcwd()) if f.lower().endswith(...)]
ListExcelFiles(dir) == SelectSeq(dir, HasExcelExtension)

----------------------------------------------------------------------------
(* int(str) *)

Digits == <<"0", "1", "2", "3", "4", "5", "6", "7", "8", "9">>

IsDigit(c) == \E d \in DOMAIN Digits : Digits[d] = c

DigitValue(c) == (CHOOSE d \in DOMAIN Digits : Digits[d] = c) - 1

IsSpace(c) == c = " "

RECURSIVE LStrip(_)
LStrip(s) == IF s # <<>> /\ IsSpace(Head(s)) THEN LStrip(Tail(s)) ELSE s

RECURSIVE RStrip(_)
RStrip(s) ==
    IF s # <<>> /\ IsSpace(s[Len(s)]) THEN RStrip(SubSeq(s, 1, Len(s) - 1)) ELSE s

\* str.strip()
Strip(s) == RStrip(LStrip(s))

RECURSIVE DecimalValue(_)
DecimalValue(ds) ==
    IF ds = <<>> THEN 0
    ELSE 10 * DecimalValue(SubSeq(ds, 1, Len(ds) - 1)) + DigitValue(ds[Len(ds)])

\* int(line): surrounding whitespace is ignored, an optional sign, then one or
\* more decimal digits; anything else raises ValueError (ok = FALSE).
ParseInt(line) ==
    LET t == Strip(line)
        signed == t # <<>> /\ Head(t) \in {"+", "-"}
        ds == IF signed THEN Tail(t) ELSE t
    IN  IF ds # <<>> /\ \A i \in DOMAIN ds : IsDigit(ds[i])
        THEN [ok |-> TRUE,
              val |-> IF signed /\ Head(t) = "-" THEN 0 - DecimalValue(ds)
                      ELSE DecimalValue(ds)]
        ELSE [ok |-> FALSE, val |-> 0]

\* seq[i] of a Python list, i a 0-based index that may be negative (counted
\* from the end); ok = FALSE is IndexError.
PyIndex(seq, i) ==
    IF 0 <= i /\ i < Len(seq) THEN [ok |-> TRUE, val |-> seq[i + 1]]
    ELSE IF i < 0 /\ 0 - i <= Len(seq) THEN [ok |-> TRUE, val |-> seq[Len(seq) + i + 1]]
    ELSE [ok |-> FALSE, val |-> None]

----------------------------------------------------------------------------
(* The environment of a run: what the command line, the directory, the user *)
(* and the engine can give.                                                 *)

a_xlsx == <<"a", ".", "x", "l", "s", "x">>
B_XLS == <<"B", ".", "X", "L", "S">>
c_Ods == <<"c", ".", "O", "d", "s">>
xls_csv == <<"x", "l", "s", ".", "c", "s", "v">>

\* the names a directory entry can have
FileNames == {a_xlsx, B_XLS, c_Ods, xls_csv}

\* the listings os.listdir can return: the entries of a directory, each once, in any order
Directories ==
    UNION {{d \in [1..n -> FileNames] : \A i, j \in 1..n : i # j => d[i] # d[j]} :
           n \in 0..Cardinality(FileNames)}

\* the values of --file: absent, empty, a spreadsheet, a delimited-text file
FileArgs == {None, <<>>, B_XLS, xls_csv}

\* the values of --sheet: absent, empty, a sheet name
SheetArgs == {None, <<>>, <<"S">>}

\* the command lines <<--file, --sheet>> of the model: every pair of the values
\* above, except that an empty --file comes only with a sheet name and an empty
\* --sheet only with an explicit file (an empty option takes the same branches
\* of lines 115 and 123 as an absent one)
CommandLines ==
    {cl \in FileArgs \X SheetArgs :
        /\ cl[1] = <<>> => cl[2] = <<"S">>
        /\ cl[2] = <<>> => cl[1] \in {B_XLS, xls_csv}}

\* the lines the user can type at a prompt
Lines == {<<"a", "b", "c">>, <<"9", "9">>, <<"0">>, <<"1">>, <<"2">>, <<"-", "1">>}

\* the number of invalid lines the user types at the file prompt in one run is at most this
MaxRetries == 2

\* a workbook has at most this many sheets
MaxSheets == 2

\* the n-th sheet name of a workbook, in the engine's order
SheetNameAt(n) == <<"Q", Digits[n + 1]>>

\* workbook.sheet_names() of a workbook with n sheets
SheetNamesOf(n) == [i \in 1..n |-> SheetNameAt(i)]

----------------------------------------------------------------------------
(* Log records, menu lines and calls *)

Info(msg) == [level |-> "INFO", msg |-> msg]
Warning(msg) == [level |-> "WARNING", msg |-> msg]
Error(msg) == [level |-> "ERROR", msg |-> msg]

\* a mutation of PrintMenu: the numbering starts at 0
PrintMenuFromZero(menu, items) ==
    [i \in DOMAIN items |-> [menu |-> menu, number |-> i - 1, item |-> items[i]]]

\* for i, name in enumerate(items, 1): print(f"{i}. {name}")
PrintMenu(menu, items) == [i \in DOMAIN items |-> [menu |-> menu, number |-> i, item |-> items[i]]]

\* a call fn(path, sheet) that returned or raised (an argument that is not passed is None)
Call(fn, path, sheet, outcome) == [fn |-> fn, path |-> path, sheet |-> sheet, outcome |-> outcome]

\* the number of entries of seq that satisfy Test
Count(seq, Test(_)) == Cardinality({i \in DOMAIN seq : Test(seq[i])})

----------------------------------------------------------------------------
(* Initial state: the command line has been parsed (lines 85-110) *)

Init ==
    /\ pc = "StartUp"
    /\ \E cl \in CommandLines : args_file = cl[1] /\ args_sheet = cl[2]
    /\ listing = <<>>
    /\ xlsx_files = <<>>
    /\ file_path = None
    /\ sheet_name = None
    /\ sheets = <<>>
    /\ workbook = <<>>
    /\ fileInputs = <<>>
    /\ sheetInputs = <<>>
    /\ prompts = <<>>
    /\ stdout = <<>>
    /\ log = <<>>
    /\ calls = <<>>
    /\ exitCode = <<>>

----------------------------------------------------------------------------
(* main(), lines 112-147, and select_excel_file(), lines 22-59 *)

\* a mutation of FatalExit: the error is logged and the process ends with status 0
FatalExitStatusZero(records) ==
    /\ pc' = "Fatal"
    /\ log' = log \o records \o <<Error("Fatal error processing file")>>
    /\ exitCode' = <<0>>

\* main's top-level handler, lines 145-147: the run ends in Fatal.
\* `records` are the records logged in the step before the exception was raised.
FatalExit(records) ==
    /\ pc' = "Fatal"
    /\ log' = log \o records \o <<Error("Fatal error processing file")>>
    /\ exitCode' = <<1>>

\* a mutation of NoFileExit: the failure of the selection reaches main's handler
NoFileExitFatal(records) == FatalExit(records)

\* select_excel_file returned None: main logs and returns, lines 117-119.
\* `records` are the records select_excel_file logged before it returned.
NoFileExit(records) ==
    /\ pc' = "Done"
    /\ log' = log \o records \o <<Info("No file selected. Exiting.")>>
    /\ exitCode' = <<0>>

\* lines 114-116: file_path = args.file; select interactively if it is absent or empty
StartUp ==
    /\ pc = "StartUp"
    /\ file_path' = args_file
    /\ pc' = IF Falsy(args_file) THEN "ListDir" ELSE "SheetSelection"
    /\ UNCHANGED <<args_file, args_sheet, listing, xlsx_files, sheet_name, sheets, workbook,
                   fileInputs, sheetInputs, prompts, stdout, log, calls, exitCode>>

\* a mutation of OnSelectionError: the failure is logged as a warning
OnSelectionErrorAsWarning == <<Warning("Error selecting Excel file")>>

\* lines 57-58: what select_excel_file logs when an exception reaches its handler
OnSelectionError == <<Error("Error selecting Excel file")>>

\* lines 29-41 (and 57-59, 117-119): the directory is listed and the menu printed
ListDir ==
    /\ pc = "ListDir"
    /\ \/ \* os.listdir raises: caught at line 57
          /\ calls' = Append(calls, Call("listdir", None, None, "raised"))
          /\ NoFileExit(OnSelectionError)
          /\ UNCHANGED <<listing, xlsx_files, stdout>>
       \/ \E dir \in Directories :
            /\ calls' = Append(calls, Call("listdir", None, None, "returned"))
            /\ listing' = dir
            /\ xlsx_files' = ListExcelFiles(dir)
            /\ IF IsEmptyList(xlsx_files')
               THEN /\ NoFileExit(<<Warning("No Excel files found in current directory.")>>)
                    /\ UNCHANGED stdout
               ELSE /\ log' = Append(log, Info("Found Excel files"))
                    /\ stdout' = stdout \o PrintMenu("file", xlsx_files')
                    /\ pc' = "FilePrompt"
                    /\ UNCHANGED exitCode
    /\ UNCHANGED <<args_file, args_sheet, file_path, sheet_name, sheets, workbook,
                   fileInputs, sheetInputs, prompts>>

\* a mutation of LoopCondition: the loop gives up after one invalid line
LoopConditionOneRetry(attempts) == attempts < 2

\* line 43, `while True`: whether the loop goes on after `attempts` lines were read
LoopCondition(attempts) == TRUE

\* a mutation of IsCancel: no input cancels
IsCancelNever(choice) == FALSE

\* line 46
IsCancel(choice) == choice = 0

\* a mutation of InRange: the lower end of the range is not checked
InRangeNoLowerEnd(choice, n) == choice <= n

\* line 49
InRange(choice, n) == 1 <= choice /\ choice <= n

\* a mutation of OnValueError: nothing is logged
OnValueErrorSilent == <<>>

\* line 55: what the loop logs when int() raises ValueError
OnValueError == <<Warning("Invalid input. Please enter a numeric value.")>>

\* line 53: what the loop logs when the number is out of range
OnOutOfRange == <<Warning("Invalid choice. Please enter a number between 1 and N.")>>

\* lines 43, 53 and 55: the line was invalid; `records` is the warning logged.
\* The loop goes on while its condition holds (a loop that ended would let
\* select_excel_file return None).
Retry(records) ==
    IF LoopCondition(Len(fileInputs'))
    THEN /\ log' = log \o records
         /\ UNCHANGED <<pc, exitCode>>
    ELSE NoFileExit(records)

\* lines 43-55 (and 57-59, 117-119): one iteration of the file prompt loop
FilePrompt ==
    /\ pc = "FilePrompt"
    /\ prompts' = Append(prompts, "file")
    /\ \/ \* input() raises EOFError: caught at line 57
          /\ NoFileExit(OnSelectionError)
          /\ UNCHANGED <<fileInputs, file_path>>
       \/ \E line \in Lines :
            LET choice == ParseInt(line) IN
            /\ fileInputs' = Append(fileInputs, line)
            /\ IF ~choice.ok
               THEN /\ Len(fileInputs) < MaxRetries
                    /\ Retry(OnValueError)
                    /\ UNCHANGED file_path
               ELSE IF IsCancel(choice.val)
               THEN /\ NoFileExit(<<Info("File selection cancelled.")>>)
                    /\ UNCHANGED file_path
               ELSE IF InRange(choice.val, Len(xlsx_files))
               THEN IF PyIndex(xlsx_files, choice.val - 1).ok
                    THEN /\ file_path' = PyIndex(xlsx_files, choice.val - 1).val
                         /\ log' = Append(log, Info("Selected file"))
                         /\ pc' = "SheetSelection"
                         /\ UNCHANGED exitCode
                    ELSE \* IndexError: caught at line 57
                         /\ NoFileExit(OnSelectionError)
                         /\ UNCHANGED file_path
               ELSE /\ Len(fileInputs) < MaxRetries
                    /\ Retry(OnOutOfRange)
                    /\ UNCHANGED file_path
    /\ UNCHANGED <<args_file, args_sheet, listing, xlsx_files, sheet_name, sheets, workbook,
                   sheetInputs, stdout, calls>>

\* a mutation of NeedsSheetSelection: an explicit sheet name is ignored
NeedsSheetSelectionAlways(path, sheet) == HasExcelExtension(path)

\* a mutation of NeedsSheetSelection: the extension of the file is not looked at
NeedsSheetSelectionAnyFile(path, sheet) == Falsy(sheet)

\* line 123
NeedsSheetSelection(path, sheet) == HasExcelExtension(path) /\ Falsy(sheet)

\* get_sheet_names, lines 72-77: the engine returned the names
GetSheetNamesReturned(names) ==
    [sheets |-> names, records |-> <<>>, outcome |-> "returned"]

\* a mutation of GetSheetNamesRaised: the failure is swallowed without a record
GetSheetNamesRaisedSilent ==
    [sheets |-> <<>>, records |-> <<>>, outcome |-> "raised"]

\* get_sheet_names, lines 79-81: the file is missing or the engine raised
GetSheetNamesRaised ==
    [sheets |-> <<>>, records |-> <<Error("Error retrieving sheet names")>>,
     outcome |-> "raised"]

\* lines 122-128 (and get_sheet_names, lines 61-81): the sheets are listed
SheetSelection ==
    /\ pc = "SheetSelection"
    /\ IF NeedsSheetSelection(file_path, args_sheet)
       THEN \E n \in 0..MaxSheets :
            \E got \in {GetSheetNamesRaised, GetSheetNamesReturned(SheetNamesOf(n))} :
                 /\ workbook' = SheetNamesOf(n)
                 /\ calls' = Append(calls, Call("get_sheet_names", file_path, None, got.outcome))
                 /\ sheets' = got.sheets
                 /\ IF IsEmptyList(sheets')
                    THEN /\ log' = log \o got.records
                         /\ pc' = "Dispatch"
                         /\ UNCHANGED stdout
                    ELSE /\ log' = log \o got.records \o <<Info("Available sheets:")>>
                         /\ stdout' = stdout \o PrintMenu("sheet", sheets')
                         /\ pc' = "SheetPrompt"
       ELSE /\ pc' = "Dispatch"
            /\ UNCHANGED <<sheets, workbook, log, stdout, calls>>
    /\ sheet_name' = args_sheet
    /\ UNCHANGED <<args_file, args_sheet, listing, xlsx_files, file_path,
                   fileInputs, sheetInputs, prompts, exitCode>>

\* lines 129-130: sheet_choice = int(input(...)); sheet_name = sheets[sheet_choice - 1]
SheetPrompt ==
    /\ pc = "SheetPrompt"
    /\ prompts' = Append(prompts, "sheet")
    /\ \/ \* input() raises EOFError
          /\ FatalExit(<<>>)
          /\ UNCHANGED <<sheetInputs, sheet_name>>
       \/ \E line \in Lines :
            LET sheet_choice == ParseInt(line) IN
            /\ sheetInputs' = Append(sheetInputs, line)
            /\ IF sheet_choice.ok /\ PyIndex(sheets, sheet_choice.val - 1).ok
               THEN /\ sheet_name' = PyIndex(sheets, sheet_choice.val - 1).val
                    /\ pc' = "Dispatch"
                    /\ UNCHANGED <<log, exitCode>>
               ELSE \* ValueError or IndexError
                    /\ FatalExit(<<>>)
                    /\ UNCHANGED sheet_name
    /\ UNCHANGED <<args_file, args_sheet, listing, xlsx_files, file_path, sheets, workbook,
                   fileInputs, stdout, calls>>

\* a mutation of ReaderFor: the two readers are exchanged
ReaderForExchanged(path) ==
    IF HasExcelExtension(path) THEN "read_csv_py" ELSE "read_excel_py"

\* lines 133-138: the reader main calls for a path
ReaderFor(path) ==
    IF HasExcelExtension(path) THEN "read_excel_py" ELSE "read_csv_py"

\* lines 134 and 137: what main logs before it calls the reader
ReadingRecord(path) ==
    Info(IF ReaderFor(path) = "read_excel_py" THEN "Reading Excel file" ELSE "Reading CSV file")

\* lines 135 and 138: the call main makes to the engine
ReaderCall(path, sheet, outcome) ==
    IF ReaderFor(path) = "read_excel_py"
    THEN Call("read_excel_py", path, sheet, outcome)
    ELSE Call("read_csv_py", path, None, outcome)

\* a mutation of Dispatch: a failure of the reader is swallowed
DispatchSwallowsFailure ==
    /\ pc = "Dispatch"
    /\ \E outcome \in {"returned", "raised"} :
          calls' = Append(calls, ReaderCall(file_path, sheet_name, outcome))
    /\ log' = Append(log, ReadingRecord(file_path))
    /\ pc' = "Render"
    /\ UNCHANGED <<args_file, args_sheet, listing, xlsx_files, file_path, sheet_name, sheets,
                   workbook, fileInputs, sheetInputs, prompts, stdout, exitCode>>

\* lines 132-138: the reader is called, and returns a batch or raises
Dispatch ==
    /\ pc = "Dispatch"
    /\ \/ /\ calls' = Append(calls, ReaderCall(file_path, sheet_name, "returned"))
          /\ log' = Append(log, ReadingRecord(file_path))
          /\ pc' = "Render"
          /\ UNCHANGED exitCode
       \/ /\ calls' = Append(calls, ReaderCall(file_path, sheet_name, "raised"))
          /\ FatalExit(<<ReadingRecord(file_path)>>)
    /\ UNCHANGED <<args_file, args_sheet, listing, xlsx_files, file_path, sheet_name, sheets,
                   workbook, fileInputs, sheetInputs, prompts, stdout>>

\* lines 140-143: the batch is converted and the preview logged, or the conversion raises
Render ==
    /\ pc = "Render"
    /\ \/ /\ log' = Append(log, Info("Successfully loaded data"))
          /\ pc' = "Done"
          /\ exitCode' = <<0>>
       \/ FatalExit(<<>>)
    /\ UNCHANGED <<args_file, args_sheet, listing, xlsx_files, file_path, sheet_name, sheets,
                   workbook, fileInputs, sheetInputs, prompts, stdout, calls>>

Next == StartUp \/ ListDir \/ FilePrompt \/ SheetSelection \/ SheetPrompt \/ Dispatch \/ Render

Spec == Init /\ [][Next]_vars

\* The program is one thread that runs to its end: every call returns or raises,
\* and the user answers every prompt (with at most MaxRetries invalid lines).
LiveSpec == Spec /\ WF_vars(Next)

----------------------------------------------------------------------------
(* Vocabulary of the properties *)

\* the recognized spreadsheet extensions, as the specification lists them
RecognizedExtensions ==
    {<<".", "x", "l", "s", "x">>, <<".", "x", "l", "s">>, <<".", "o", "d", "s">>}

\* the lowercased name ends in a recognized spreadsheet extension
IsSpreadsheetName(name) ==
    \E ext \in RecognizedExtensions :
        /\ Len(ext) <= Len(name)
        /\ \A i \in 1..Len(ext) : LowerChar(name[Len(name) - Len(ext) + i]) = ext[i]

\* the line is a decimal integer (optionally signed, optionally surrounded by blanks)
\* whose value is k
LineIsInteger(line, k) == ParseInt(line).ok /\ ParseInt(line).val = k

\* the line is a decimal integer in lo..hi
LineInRange(line, lo, hi) == \E k \in lo..hi : LineIsInteger(line, k)

LastOf(seq) == seq[Len(seq)]

IsReaderCall(c) == c.fn \in {"read_excel_py", "read_csv_py"}
IsSheetResolverCall(c) == c.fn = "get_sheet_names"
IsListDirCall(c) == c.fn = "listdir"

\* os.listdir returned a listing in this run
Scanned == \E i \in DOMAIN calls : calls[i].fn = "listdir" /\ calls[i].outcome = "returned"
IsWarning(r) == r.level = "WARNING"
IsFilePrompt(p) == p = "file"
IsSheetPrompt(p) == p = "sheet"

\* the preview / success message of line 143 was produced
PreviewProduced == \E i \in DOMAIN log : log[i] = Info("Successfully loaded data")

\* the item the file menu displayed under number k
ListedFile(k) == (CHOOSE i \in DOMAIN stdout : stdout[i].menu = "file" /\ stdout[i].number = k)

ExitedWith(status) == exitCode = <<status>>

abc == <<"a", "b", "c">>
ninetyNine == <<"9", "9">>
zero == <<"0">>
one == <<"1">>
two == <<"2">>
minusOne == <<"-", "1">>

----------------------------------------------------------------------------
(* Properties *)

\* C1: a step of the file prompt that reads a line returns "no file" exactly when
\* the line is the integer 0, returns the k-th listed candidate exactly when the
\* line is an integer k in 1..N, and on any other line returns nothing and stays
\* at the prompt.
C1_FilePromptReturnsOnlyOnValidChoice ==
    [][(pc = "FilePrompt" /\ fileInputs' # fileInputs) =>
        LET line == LastOf(fileInputs')
            N == Len(xlsx_files)
        IN  IF LineIsInteger(line, 0)
            THEN pc' = "Done" /\ Falsy(file_path')
            ELSE IF LineInRange(line, 1, N)
            THEN /\ pc' = "SheetSelection"
                 /\ \E k \in 1..N : /\ LineIsInteger(line, k)
                                    /\ file_path' = stdout[ListedFile(k)].item
            ELSE pc' = "FilePrompt" /\ file_path' = file_path /\ exitCode' = <<>>]_vars

\* C1 witness: after a non-numeric, a negative and a too large line, the line 2
\* returned the second of two candidates
C1_Witness ==
    /\ pc = "SheetSelection"
    /\ MaxRetries >= 2
    /\ fileInputs \in {<<abc, minusOne, two>>, <<minusOne, ninetyNine, two>>}
    /\ Len(xlsx_files) = 2
    /\ file_path = xlsx_files[2]

\* C2: every call of the spreadsheet reader is for a spreadsheet name, every call
\* of the delimited-text reader is for another name and passes the path only;
\* once main is past Dispatch, the reader for file_path has been called.
C2_DispatchRouting ==
    /\ \A i \in DOMAIN calls :
        /\ calls[i].fn = "read_excel_py" => IsSpreadsheetName(calls[i].path)
        /\ calls[i].fn = "read_csv_py" =>
              ~IsSpreadsheetName(calls[i].path) /\ calls[i].sheet = None
    /\ pc = "Render" =>
        /\ LastOf(calls).path = file_path
        /\ LastOf(calls).fn =
              IF IsSpreadsheetName(file_path) THEN "read_excel_py" ELSE "read_csv_py"

\* C2 witness: an upper-case spreadsheet name went to the spreadsheet reader
C2_Witness ==
    /\ pc = "Render"
    /\ file_path = B_XLS
    /\ LastOf(calls).fn = "read_excel_py"

\* C2 witness of the other branch is part of the same run space: xls.csv goes to
\* the delimited-text reader
C2_WitnessCsv ==
    /\ pc = "Render"
    /\ file_path = xls_csv
    /\ LastOf(calls) = Call("read_csv_py", xls_csv, None, "returned")

\* C3 (as claimed): when the sheets were listed and a line was read at the sheet
\* prompt, a call of the spreadsheet reader passes the selected file and the
\* k-th sheet, k the number entered, 1 <= k <= N.
C3_SheetReaderOnlyForInRangeChoice ==
    \A i \in DOMAIN calls :
        (calls[i].fn = "read_excel_py" /\ sheetInputs # <<>>) =>
            /\ LineInRange(LastOf(sheetInputs), 1, Len(sheets))
            /\ calls[i].path = file_path
            /\ \E k \in 1..Len(sheets) : /\ LineIsInteger(LastOf(sheetInputs), k)
                                         /\ calls[i].sheet = sheets[k]

\* C4 (as claimed): a malformed line at the sheet prompt (not an integer, or an
\* integer outside 1..N) leaves the run at the sheet prompt.
C4_SheetPromptRetriesOnMalformedInput ==
    (sheetInputs # <<>> /\ ~LineInRange(LastOf(sheetInputs), 1, Len(sheets))) =>
        pc = "SheetPrompt"

\* C5: when a reader raised, the run is in Fatal: the error is logged last, the
\* exit status is 1, no preview was produced, and nothing was called afterwards.
C5_ReaderFailureIsFatal ==
    \A i \in DOMAIN calls :
        (IsReaderCall(calls[i]) /\ calls[i].outcome = "raised") =>
            /\ pc = "Fatal"
            /\ ExitedWith(1)
            /\ LastOf(log) = Error("Fatal error processing file")
            /\ ~PreviewProduced
            /\ i = Len(calls)

\* C5 witness: the delimited-text reader raised
C5_Witness ==
    /\ pc = "Fatal"
    /\ calls = <<Call("read_csv_py", xls_csv, None, "raised")>>

\* C6: once the user entered 0 at the file prompt, the run is Done with status 0,
\* no file is selected, and neither the Sheet Resolver nor a reader was called
\* and no preview produced.
C6_CancelEndsRunCleanly ==
    \A i \in DOMAIN fileInputs :
        LineIsInteger(fileInputs[i], 0) =>
            /\ i = Len(fileInputs)
            /\ pc = "Done"
            /\ ExitedWith(0)
            /\ Falsy(file_path)
            /\ Count(calls, IsReaderCall) = 0
            /\ Count(calls, IsSheetResolverCall) = 0
            /\ ~PreviewProduced

\* C6 witness: 0 after two invalid lines
C6_Witness ==
    /\ pc = "Done"
    /\ Len(fileInputs) = 3
    /\ LastOf(fileInputs) = zero
    /\ LastOf(log) = Info("No file selected. Exiting.")

\* C7: when the directory was listed and holds no spreadsheet name, no prompt was
\* issued, a warning was logged, no reader was called and the run is Done with
\* status 0.
C7_NoCandidatesEndsRunCleanly ==
    (Scanned /\ \A j \in DOMAIN listing : ~IsSpreadsheetName(listing[j])) =>
        /\ pc = "Done"
        /\ ExitedWith(0)
        /\ prompts = <<>>
        /\ Count(log, IsWarning) = 1
        /\ Count(calls, IsReaderCall) = 0
        /\ Falsy(file_path)

\* C7 witness: a directory that holds only a delimited-text file
C7_Witness ==
    /\ listing = <<xls_csv>>
    /\ pc = "Done"
    /\ log = <<Warning("No Excel files found in current directory."),
               Info("No file selected. Exiting.")>>

\* C8: with an explicit spreadsheet file and an explicit non-empty sheet name,
\* nothing is scanned, prompted or resolved, and the only call is the spreadsheet
\* reader with that file and that sheet, made by the time main is past Dispatch.
C8_ExplicitFileAndSheetGoStraightToReader ==
    (~Falsy(args_file) /\ IsSpreadsheetName(args_file) /\ ~Falsy(args_sheet)) =>
        /\ prompts = <<>>
        /\ stdout = <<>>
        /\ listing = <<>>
        /\ \A i \in DOMAIN calls :
              /\ i = 1
              /\ calls[i].fn = "read_excel_py"
              /\ calls[i].path = args_file
              /\ calls[i].sheet = args_sheet
        /\ pc \in {"Render", "Done", "Fatal"} => Len(calls) = 1
        /\ pc \in {"StartUp", "SheetSelection", "Dispatch", "Render", "Done", "Fatal"}

\* C8 witness: --file B.XLS --sheet S was read
C8_Witness ==
    /\ args_file = B_XLS
    /\ args_sheet = <<"S">>
    /\ pc = "Done"
    /\ calls = <<Call("read_excel_py", B_XLS, <<"S">>, "returned")>>

\* C9: at the file prompt every invalid line produced exactly one warning and one
\* further prompt: while the loop runs, k lines read mean k warnings and k
\* prompts; when it returned on a valid line after k invalid ones, k warnings and
\* k + 1 prompts.  On a 3-item menu, abc, 99, 1 gives two warnings and item 1.
C9_OneWarningAndOnePromptPerInvalidInput ==
    /\ pc = "FilePrompt" =>
          /\ Count(log, IsWarning) = Len(fileInputs)
          /\ Count(prompts, IsFilePrompt) = Len(fileInputs)
    /\ (fileInputs # <<>> /\ LineInRange(LastOf(fileInputs), 0, Len(xlsx_files))) =>
          /\ pc # "FilePrompt"
          /\ Count(log, IsWarning) = Len(fileInputs) - 1
          /\ Count(prompts, IsFilePrompt) = Len(fileInputs)
    /\ (fileInputs = <<abc, ninetyNine, one>> /\ Len(xlsx_files) = 3) =>
          /\ Count(log, IsWarning) = 2
          /\ file_path = stdout[ListedFile(1)].item

\* C9 witness: abc, 99, 1 on a 3-item menu
C9_Witness ==
    /\ fileInputs = <<abc, ninetyNine, one>>
    /\ Len(xlsx_files) = 3
    /\ file_path = xlsx_files[1]
    /\ pc = "SheetSelection"

\* the place of a name in a listing
PlaceIn(dir, name) == CHOOSE j \in DOMAIN dir : dir[j] = name

\* C10: after the scan, the candidates are exactly the entries of the listing
\* with a spreadsheet name, each once, in the order of the listing.
C10_ScannerFiltersByExtensionInOrder ==
    Scanned =>
        /\ \A i \in DOMAIN xlsx_files :
              /\ IsSpreadsheetName(xlsx_files[i])
              /\ \E j \in DOMAIN listing : listing[j] = xlsx_files[i]
        /\ \A j \in DOMAIN listing :
              IsSpreadsheetName(listing[j]) =>
                  Cardinality({i \in DOMAIN xlsx_files : xlsx_files[i] = listing[j]}) = 1
        /\ \A i \in 1..(Len(xlsx_files) - 1) :
              PlaceIn(listing, xlsx_files[i]) < PlaceIn(listing, xlsx_files[i + 1])

\* C10 witness: three spreadsheets of mixed case around a delimited-text file
C10_Witness ==
    /\ listing = <<c_Ods, xls_csv, B_XLS, a_xlsx>>
    /\ xlsx_files = <<c_Ods, B_XLS, a_xlsx>>


\* a record of level ERROR
IsError(r) == r.level = "ERROR"

\* a line of the sheet menu was printed
SheetMenuPrinted == \E i \in DOMAIN stdout : stdout[i].menu = "sheet"

\* get_sheet_names failed in this run
SheetResolverFailed ==
    \E i \in DOMAIN calls : IsSheetResolverCall(calls[i]) /\ calls[i].outcome = "raised"

\* C11 (as claimed): the spreadsheet reader is never called without a sheet name
\* (None or empty) for a file that has at least one sheet.
C11_NoSpreadsheetReadWithoutSheetName ==
    \A i \in DOMAIN calls :
        (calls[i].fn = "read_excel_py" /\ Len(workbook) >= 1) => ~Falsy(calls[i].sheet)

\* C12: when get_sheet_names failed, it returned the empty list and logged an
\* error, main issued no sheet prompt and printed no sheet menu, and the run went
\* on to Dispatch: it is in Fatal only after a reader call.
C12_SheetResolverFailureIsContained ==
    SheetResolverFailed =>
        /\ sheets = <<>>
        /\ \E i \in DOMAIN log : log[i] = Error("Error retrieving sheet names")
        /\ Count(prompts, IsSheetPrompt) = 0
        /\ ~SheetMenuPrinted
        /\ pc \in {"Dispatch", "Render", "Done", "Fatal"}
        /\ pc = "Fatal" => Count(calls, IsReaderCall) = 1

\* C12 witness: the resolver failed for a workbook with two sheets and main is at Dispatch
C12_Witness ==
    /\ SheetResolverFailed
    /\ Len(workbook) = 2
    /\ pc = "Dispatch"
    /\ prompts = <<>>

\* the run failed to list the directory
ListDirFailed ==
    \E i \in DOMAIN calls : IsListDirCall(calls[i]) /\ calls[i].outcome = "raised"

\* C13: when the directory could not be read, one record of level ERROR and no
\* warning was logged, no file is selected, no prompt issued, no reader called,
\* and the run is Done with status 0, as for an empty directory.
C13_UnreadableDirectoryIsLoggedAsError ==
    ListDirFailed =>
        /\ Count(log, IsError) = 1
        /\ Count(log, IsWarning) = 0
        /\ LastOf(log) = Info("No file selected. Exiting.")
        /\ Falsy(file_path)
        /\ prompts = <<>>
        /\ Count(calls, IsReaderCall) = 0
        /\ pc = "Done"
        /\ ExitedWith(0)

\* C13 witness: os.listdir raised
C13_Witness ==
    /\ calls = <<Call("listdir", None, None, "raised")>>
    /\ pc = "Done"
    /\ Len(log) = 2

\* C14: the Sheet Resolver was called, a sheet menu printed or a sheet prompt
\* issued only for a file with a spreadsheet name and without a (non-empty)
\* explicit sheet name.
C14_SheetSelectionOnlyForSpreadsheetWithoutSheet ==
    (Count(calls, IsSheetResolverCall) > 0 \/ SheetMenuPrinted
        \/ Count(prompts, IsSheetPrompt) > 0) =>
        /\ IsSpreadsheetName(file_path)
        /\ Falsy(args_sheet)

\* C14 witness: a delimited-text file and a spreadsheet with an explicit sheet
\* went to Dispatch unresolved; here the first of the two
C14_Witness ==
    /\ file_path = xls_csv
    /\ args_sheet = None
    /\ pc = "Render"
    /\ Count(calls, IsSheetResolverCall) = 0
    /\ prompts = <<>>

\* a reader call that returned
IsReturnedReaderCall(c) == IsReaderCall(c) /\ c.outcome = "returned"

\* C15: at most one reader call is made in a run; the preview is produced only
\* after that call returned, and then the run is Done with status 0.
C15_OneReaderCallAndPreviewOnlyAfterIt ==
    /\ Count(calls, IsReaderCall) <= 1
    /\ PreviewProduced =>
          /\ Count(calls, IsReturnedReaderCall) = 1
          /\ pc = "Done"
          /\ ExitedWith(0)
    /\ pc \in {"StartUp", "ListDir", "FilePrompt", "SheetSelection", "SheetPrompt", "Dispatch"}
          => Count(calls, IsReaderCall) = 0

\* C15 witness: a preview after the one reader call
C15_Witness ==
    /\ PreviewProduced
    /\ Count(calls, IsReaderCall) = 1
    /\ pc = "Done"

\* the run has ended, in Done with status 0 or in Fatal with status 1
Terminated == (pc = "Done" /\ ExitedWith(0)) \/ (pc = "Fatal" /\ ExitedWith(1))

\* C16: an invalid line at the file prompt, however many came before it, leaves
\* the run at the file prompt; and when the user ends up entering a valid line
\* (or the input ends) and every call returns or raises, the run terminates, in
\* Done with status 0 or in Fatal with status 1.
C16_FileLoopHasNoLimitAndRunTerminates ==
    /\ [][(/\ pc = "FilePrompt"
           /\ fileInputs' # fileInputs
           /\ ~LineInRange(LastOf(fileInputs'), 0, Len(xlsx_files)))
          => (pc' = "FilePrompt" /\ exitCode' = <<>>)]_vars
    /\ <>Terminated

\* C16 witness: a run that stayed at the file prompt for two invalid lines and
\* then went through to the preview
C16_Witness ==
    /\ Len(fileInputs) = 3
    /\ ~LineInRange(fileInputs[2], 0, Len(xlsx_files))
    /\ PreviewProduced
    /\ Terminated

\* C17: the directory is listed at most once in a run; a step of the file prompt
\* leaves the listing, the candidates and the printed menu unchanged and makes no
\* call; the file a valid line k returns is the item printed under number k.
C17_CandidatesFixedAcrossRetries ==
    [][/\ Count(calls', IsListDirCall) <= 1
       /\ pc = "FilePrompt" =>
            /\ listing' = listing
            /\ xlsx_files' = xlsx_files
            /\ stdout' = stdout
            /\ calls' = calls
            /\ Len(stdout) = Len(xlsx_files)
            /\ \A i \in DOMAIN stdout :
                  stdout[i] = [menu |-> "file", number |-> i, item |-> xlsx_files[i]]
            /\ pc' = "SheetSelection" =>
                  \E k \in 1..Len(xlsx_files) :
                      /\ LineIsInteger(LastOf(fileInputs'), k)
                      /\ \E i \in DOMAIN stdout :
                            stdout[i] = [menu |-> "file", number |-> k, item |-> file_path']]_vars

\* C17 witness: after two retries the second of three candidates was chosen
C17_Witness ==
    /\ Len(fileInputs) = 3
    /\ LastOf(fileInputs) = two
    /\ Len(xlsx_files) = 3
    /\ file_path = xlsx_files[2]
    /\ Count(calls, IsListDirCall) = 1
    /\ Len(stdout) = 3

IsCsvReaderCall(c) == c.fn = "read_csv_py"

\* C18: in a run without an explicit file the delimited-text reader is never
\* called, and the file selected has a spreadsheet name.
C18_NoCsvReadWithoutExplicitFile ==
    Falsy(args_file) =>
        /\ Count(calls, IsCsvReaderCall) = 0
        /\ ~Falsy(file_path) => IsSpreadsheetName(file_path)

\* C18 witness: an interactive run from a directory with a delimited-text file
\* called the spreadsheet reader
C18_Witness ==
    /\ Falsy(args_file)
    /\ \E j \in DOMAIN listing : listing[j] = xls_csv
    /\ Count(calls, IsReaderCall) = 1
    /\ LastOf(calls).fn = "read_excel_py"

\* input() raised at the file prompt: a prompt was issued that returned no line
FilePromptFailed == Count(prompts, IsFilePrompt) > Len(fileInputs) /\ pc # "FilePrompt"

\* C19: a run enters Fatal only from the sheet prompt, Dispatch or Render; a
\* failure of os.listdir or of input() at the file prompt leaves no file selected
\* and the run Done with status 0.
C19_FileSelectionFailureIsNeverFatal ==
    /\ [][(pc' = "Fatal" /\ pc # "Fatal") => pc \in {"SheetPrompt", "Dispatch", "Render"}]_vars
    /\ []((ListDirFailed \/ FilePromptFailed) =>
            /\ pc = "Done"
            /\ ExitedWith(0)
            /\ Falsy(file_path)
            /\ Count(calls, IsReaderCall) = 0)

\* C19 witness: input() raised at the file prompt after one invalid line
C19_Witness ==
    /\ FilePromptFailed
    /\ Len(fileInputs) = 1
    /\ pc = "Done"
    /\ Count(log, IsError) = 1

====
